---------------------------- MODULE Spec2Model ----------------------------
(***************************************************************************)
(* A model of the dynarray repository: the typed container dynarray<T> of  *)
(* inc/dynarray.hpp and the opaque, handle-based container of              *)
(* src/cdynarray.c.  The two containers are independent of each other; a   *)
(* behaviour exercises one of them (variable "variant").                   *)
(*                                                                         *)
(* Conventions.  A C/C++ array of n elements is a sequence of length n;    *)
(* the code's index i is position i + 1 of the sequence.  The element type *)
(* T of the typed container is int, as in the repository's tests; its      *)
(* default (value-initialised) element is 0.                                *)
(***************************************************************************)
EXTENDS Integers, Sequences, FiniteSets, TLC

VARIABLES
    variant,       \* "typed" or "opaque": the container this run exercises
    mp_array,      \* dynarray<T>::mp_array: the elements of the backing array
    mp_null,       \* TRUE iff dynarray<T>::mp_array is the null pointer
    m_capacity,    \* dynarray<T>::m_capacity
    m_size,        \* dynarray<T>::m_size
    handle,        \* the DYNARRAY_HANDLE the client holds: "NULL" or "META"
    p_meta_data,   \* the DYNARRAY_METADATA record behind a non-null handle
    ret            \* what the last call gave back to its caller

vars == <<variant, mp_array, mp_null, m_capacity, m_size, handle, p_meta_data, ret>>

typed_vars == <<mp_array, mp_null, m_capacity, m_size>>

opaque_vars == <<handle, p_meta_data>>

---------------------------------------------------------------------------
(* Bounds of the model *)

\* largest size passed to the typed constructor
MaxInit == 5

\* largest capacity the typed backing array may grow to
MaxCap == 10

\* largest num_elements passed to init_array
MaxNum == 2

\* largest capacity the opaque backing array may grow to
MaxOCap == 4

\* element values of the typed container: the default 0 and a non-default one
Values == {0, 1}

\* the value of a value-initialised element, T{} / {0}
Default == 0

\* indices passed by callers (size_t, so never negative); reaches past every capacity
Indices == 0..(MaxCap + 1)

\* indices passed to the opaque container
OIndices == 0..(MaxOCap + 1)

\* values of one byte of the opaque container's buffer
Bytes == {0, 1}

\* element widths passed to init_array
ElemSizes == {1, 2}

---------------------------------------------------------------------------
(* What a call gives back: a returned value, or an exception that leaves it *)

Returned(op, v) == [op |-> op, status |-> "returned", val |-> v]

\* a constructor or factory that has run: the arguments it was called with
\* and, for a factory, the handle it returned
Constructed(op, args, v) == [op |-> op, status |-> "returned", val |-> v, args |-> args]

Threw(op, e) == [op |-> op, status |-> "threw", val |-> e]

---------------------------------------------------------------------------
(* Typed container, inc/dynarray.hpp *)

\* new T[n]{}: n value-initialised elements
NewArray(n) == [k \in 1..n |-> Default]

\* arr[i] = v
Store(arr, i, v) == [arr EXCEPT ![i + 1] = v]

\* swap(first, second) applied to arr[i] and arr[k]
swap(arr, i, k) == [arr EXCEPT ![i + 1] = arr[k + 1], ![k + 1] = arr[i + 1]]

\* new_capacity without the case of an empty store (mutant)
new_capacity_no_zero_case(capacity) == 2 * capacity

\* new_capacity growing by one slot instead of doubling (mutant)
new_capacity_plus_one(capacity) == capacity + 1

\* the capacity of the reallocated backing array
new_capacity(capacity) == IF capacity = 0 THEN 1 ELSE 2 * capacity

\* the constructor leaving the logical size at 0 (mutant)
dynarray_ctor_size_zero(size, alloc_ok) ==
    IF alloc_ok
    THEN [mp_array |-> NewArray(size), mp_null |-> FALSE,
          m_capacity |-> size, m_size |-> 0]
    ELSE [mp_array |-> <<>>, mp_null |-> TRUE, m_capacity |-> 0, m_size |-> 0]

\* the constructor: the object's fields after dynarray(size); alloc_ok is
\* whether new (std::nothrow) T[size]{} gave memory
dynarray_ctor(size, alloc_ok) ==
    IF alloc_ok
    THEN [mp_array |-> NewArray(size), mp_null |-> FALSE,
          m_capacity |-> size, m_size |-> size]
    ELSE [mp_array |-> <<>>, mp_null |-> TRUE, m_capacity |-> 0, m_size |-> 0]

\* the copy loop of the reallocation branch: for (i = 0, j = 0; i < m_capacity; ++i, ++j)
RECURSIVE copy_loop(_, _, _, _, _, _)
copy_loop(new_array, old_array, i, j, index, capacity) ==
    IF i < capacity
    THEN LET jj == IF i = index THEN j + 1 ELSE j
         IN  copy_loop(Store(new_array, jj, old_array[i + 1]), old_array,
                       i + 1, jj + 1, index, capacity)
    ELSE new_array

\* the in-place loop bounded by the logical size before its increment (mutant)
RECURSIVE shift_right_stops_early(_, _, _, _)
shift_right_stops_early(arr, temp, i, size) ==
    IF i < size - 1
    THEN shift_right_stops_early(Store(arr, i, temp), arr[i + 1], i + 1, size)
    ELSE arr

\* the in-place loop of insert_element: for (i = index; i < m_size; ++i) swap(mp_array[i], temp)
RECURSIVE shift_right(_, _, _, _)
shift_right(arr, temp, i, size) ==
    IF i < size
    THEN shift_right(Store(arr, i, temp), arr[i + 1], i + 1, size)
    ELSE arr

\* the loop of delete_element starting one slot past the deleted one (mutant)
RECURSIVE shift_left_from_next(_, _, _)
shift_left_from_next(arr, i, size) ==
    IF i + 1 < size
    THEN shift_left_from_next(swap(arr, i + 1, i + 2), i + 1, size)
    ELSE arr

\* the loop of delete_element: for (i = index; i < m_size; ++i) swap(mp_array[i], mp_array[i + 1])
RECURSIVE shift_left(_, _, _)
shift_left(arr, i, size) ==
    IF i < size
    THEN shift_left(swap(arr, i, i + 1), i + 1, size)
    ELSE arr

\* the slots [0, m_size) of the typed container, as get_element shows them
Visible == SubSeq(mp_array, 1, m_size)

\* the opaque container's variables while the run exercises the typed one
NoMeta == [capacity |-> 0, element_size |-> 0, logical_size |-> 0, p_backing_array |-> <<>>]

\* dynarray<T>::get_element(index); the local T retVal is not initialised, so
\* what an out-of-range call returns is whatever the build left there
get_results(index) ==
    IF ~mp_null /\ index < m_size THEN {mp_array[index + 1]} ELSE Values

\* a call of dynarray<T>::get_element(index)
get_element(index) ==
    /\ variant = "typed"
    /\ \E retVal \in get_results(index) : ret' = Returned("get_element", retVal)
    /\ UNCHANGED <<variant, typed_vars, opaque_vars>>

\* set_element testing the index against the capacity (mutant)
set_element_within_capacity(index, element) ==
    /\ variant = "typed"
    /\ IF ~mp_null /\ index < m_capacity
       THEN /\ mp_array' = Store(mp_array, index, element)
            /\ ret' = Returned("set_element", TRUE)
       ELSE /\ mp_array' = mp_array
            /\ ret' = Returned("set_element", FALSE)
    /\ UNCHANGED <<variant, mp_null, m_capacity, m_size, opaque_vars>>

\* dynarray<T>::set_element(index, element)
set_element(index, element) ==
    /\ variant = "typed"
    /\ IF ~mp_null /\ index < m_size
       THEN /\ mp_array' = Store(mp_array, index, element)
            /\ ret' = Returned("set_element", TRUE)
       ELSE /\ mp_array' = mp_array
            /\ ret' = Returned("set_element", FALSE)
    /\ UNCHANGED <<variant, mp_null, m_capacity, m_size, opaque_vars>>

\* dynarray<T>::insert_element(index, element); alloc_ok is whether
\* new T[new_capacity]{} gave memory (it throws std::bad_alloc otherwise, so
\* the test of new_array against NULL never sees a failure)
insert_element(index, element, alloc_ok) ==
    /\ variant = "typed"
    /\ (index <= m_size /\ m_size = m_capacity) => new_capacity(m_capacity) <= MaxCap
    /\ IF index <= m_size
       THEN IF m_size = m_capacity
            THEN IF alloc_ok
                 THEN LET new_array == copy_loop(NewArray(new_capacity(m_capacity)),
                                                 mp_array, 0, 0, index, m_capacity)
                      IN  /\ mp_array' = Store(new_array, index, element)
                          /\ mp_null' = FALSE
                          /\ m_size' = m_size + 1
                          /\ m_capacity' = new_capacity(m_capacity)
                          /\ ret' = Returned("insert_element", TRUE)
                 ELSE /\ ret' = Threw("insert_element", "bad_alloc")
                      /\ UNCHANGED typed_vars
            ELSE /\ mp_array' = shift_right(mp_array, element, index, m_size + 1)
                 /\ m_size' = m_size + 1
                 /\ ret' = Returned("insert_element", TRUE)
                 /\ UNCHANGED <<mp_null, m_capacity>>
       ELSE /\ ret' = Returned("insert_element", TRUE)
            /\ UNCHANGED typed_vars
    /\ UNCHANGED <<variant, opaque_vars>>

\* the range test of delete_element admitting index = m_size (mutant)
delete_in_range_inclusive(index, size) == size > 0 /\ index <= size

\* the range test of delete_element refusing the last element (mutant)
delete_in_range_below_last(index, size) == size > 0 /\ index < size - 1

\* the range test of delete_element
delete_in_range(index, size) == size > 0 /\ index < size

\* delete_element without the clearing of the deleted slot (mutant)
delete_sift_no_clear(arr, index, size) == shift_left(arr, index, size)

\* the backing array after the body of delete_element: the slot is cleared and
\* sifted to the end of the elements; size is m_size after its decrement
delete_sift(arr, index, size) == shift_left(Store(arr, index, Default), index, size)

\* delete_element giving the spare slot back: shrink-on-delete (mutant)
delete_element_shrinks(index) ==
    /\ variant = "typed"
    /\ IF delete_in_range(index, m_size)
       THEN /\ mp_array' = SubSeq(delete_sift(mp_array, index, m_size - 1), 1, m_capacity - 1)
            /\ m_size' = m_size - 1
            /\ m_capacity' = m_capacity - 1
            /\ ret' = Returned("delete_element", TRUE)
       ELSE /\ ret' = Returned("delete_element", FALSE)
            /\ UNCHANGED <<mp_array, m_size, m_capacity>>
    /\ UNCHANGED <<variant, mp_null, opaque_vars>>

\* dynarray<T>::delete_element(index)
delete_element(index) ==
    /\ variant = "typed"
    /\ IF delete_in_range(index, m_size)
       THEN /\ mp_array' = delete_sift(mp_array, index, m_size - 1)
            /\ m_size' = m_size - 1
            /\ ret' = Returned("delete_element", TRUE)
       ELSE /\ ret' = Returned("delete_element", FALSE)
            /\ UNCHANGED <<mp_array, m_size>>
    /\ UNCHANGED <<variant, mp_null, m_capacity, opaque_vars>>

\* the slots the copy loop of insert_element touches: the pairs <<i, j>> of
\* new_array[j] = mp_array[i]
RECURSIVE copy_loop_touched(_, _, _, _)
copy_loop_touched(i, j, index, capacity) ==
    IF i < capacity
    THEN LET jj == IF i = index THEN j + 1 ELSE j
         IN  {<<i, jj>>} \cup copy_loop_touched(i + 1, jj + 1, index, capacity)
    ELSE {}

\* the slots of mp_array the in-place loop of insert_element touches; size
\* is m_size after its increment
RECURSIVE shift_right_touched(_, _)
shift_right_touched(i, size) ==
    IF i < size THEN {i} \cup shift_right_touched(i + 1, size) ELSE {}

\* the loop of delete_element running to i = m_size inclusive (mutant)
RECURSIVE shift_left_touched_inclusive(_, _)
shift_left_touched_inclusive(i, size) ==
    IF i <= size THEN {i, i + 1} \cup shift_left_touched_inclusive(i + 1, size) ELSE {}

\* the slots of mp_array the loop of delete_element touches: i and i + 1 of
\* each swap; size is m_size after its decrement
RECURSIVE shift_left_touched(_, _)
shift_left_touched(i, size) ==
    IF i < size THEN {i, i + 1} \cup shift_left_touched(i + 1, size) ELSE {}

\* the slots of mp_array that get_element(index) reads
get_element_touched(index) == IF ~mp_null /\ index < m_size THEN {index} ELSE {}

\* the slots of mp_array that set_element(index, element) writes
set_element_touched(index) == IF ~mp_null /\ index < m_size THEN {index} ELSE {}

\* the slots insert_element(index, element) touches, of the store the object
\* holds at the call (mp_array) and of the reallocated one (new_array)
insert_element_touched(index) ==
    IF index <= m_size
    THEN IF m_size = m_capacity
         THEN LET pairs == copy_loop_touched(0, 0, index, m_capacity)
              IN  [mp_array |-> {p[1] : p \in pairs},
                   new_array |-> {p[2] : p \in pairs} \cup {index}]
         ELSE [mp_array |-> shift_right_touched(index, m_size + 1), new_array |-> {}]
    ELSE [mp_array |-> {}, new_array |-> {}]

\* the slots of mp_array that delete_element(index) touches
delete_element_touched(index) ==
    IF delete_in_range(index, m_size)
    THEN {index} \cup shift_left_touched(index, m_size - 1)
    ELSE {}

---------------------------------------------------------------------------
(* Opaque container, src/cdynarray.c.  The backing array is a sequence of  *)
(* bytes; slot i is the element_size bytes from offset element_size * i.   *)

\* what a call that copies bytes out to the caller's p_data gives back
ReturnedData(op, v, bytes) == [op |-> op, status |-> "returned", val |-> v, copied |-> bytes]

\* calloc(num, size): num * size zero bytes
calloc(num, size) == [k \in 1..(num * size) |-> 0]

\* memcpy(dest + offset, src, Len(src)); a byte that would land past the
\* end of dest is not part of dest
memcpy(dest, offset, src) ==
    [k \in 1..Len(dest) |->
        IF k - 1 >= offset /\ k - 1 < offset + Len(src) THEN src[k - offset] ELSE dest[k]]

\* the byte at p + offset of a buffer p; past the end of the buffer the read
\* is outside the allocation and gives whatever lies there (beyond)
ReadByte(p, offset, beyond) ==
    IF offset < Len(p) THEN p[offset + 1] ELSE beyond[offset - Len(p) + 1]

\* the element_size bytes of slot index
Slot(p, element_size, index) ==
    [k \in 1..element_size |-> p[element_size * index + k]]

\* the growth policy of the macro CALCULATE_NEW_CAPACITY (common_utils.h)
CALCULATE_NEW_CAPACITY(capacity) == IF capacity = 0 THEN 1 ELSE 2 * capacity

\* init_array(num_elements, element_size): the handle and the metadata;
\* meta_ok and array_ok are whether malloc and calloc gave memory
init_array(num_elements, element_size, meta_ok, array_ok) ==
    IF meta_ok /\ array_ok
    THEN [handle |-> "META",
          meta |-> [capacity |-> num_elements, element_size |-> element_size,
                    logical_size |-> num_elements,
                    p_backing_array |-> calloc(num_elements, element_size)]]
    ELSE [handle |-> "NULL", meta |-> NoMeta]

\* set_element copying to p_backing_array + index, the index not scaled by
\* element_size
set_element_at_unscaled(meta, index, p_data) ==
    IF index < meta.capacity
    THEN [status |-> TRUE,
          meta |-> [meta EXCEPT !.p_backing_array =
                        memcpy(meta.p_backing_array, index, p_data)]]
    ELSE [status |-> FALSE, meta |-> meta]

\* set_element accepting index = capacity
set_element_at_inclusive(meta, index, p_data) ==
    IF index <= meta.capacity
    THEN [status |-> TRUE,
          meta |-> [meta EXCEPT !.p_backing_array =
                        memcpy(meta.p_backing_array, meta.element_size * index, p_data)]]
    ELSE [status |-> FALSE, meta |-> meta]

\* the body of set_element for a non-null handle: the status and the metadata after
set_element_at(meta, index, p_data) ==
    IF index < meta.capacity
    THEN [status |-> TRUE,
          meta |-> [meta EXCEPT !.p_backing_array =
                        memcpy(meta.p_backing_array, meta.element_size * index, p_data)]]
    ELSE [status |-> FALSE, meta |-> meta]

\* copy_elements: the destination buffer after the copy
copy_elements(p_source_data, source_index, p_dest_data, dest_index, element_size, num_elements, beyond) ==
    LET bytes == [k \in 1..(element_size * num_elements) |->
                     ReadByte(p_source_data, source_index * element_size + k - 1, beyond)]
    IN  memcpy(p_dest_data, dest_index * element_size, bytes)

\* the number of bytes the copies of resize_and_insert read past the end of
\* the old backing array
OverRead(meta, index) ==
    IF index = 0 \/ index = meta.capacity
    THEN 0
    ELSE (index + 1 + meta.logical_size) * meta.element_size
             - Len(meta.p_backing_array)

\* the arguments of the copy_elements calls resize_and_insert makes, in order
copy_calls(meta, index) ==
    IF index = 0
    THEN <<[source_index |-> 0, dest_index |-> 1, num_elements |-> meta.logical_size]>>
    ELSE IF index = meta.capacity
    THEN <<[source_index |-> 0, dest_index |-> 0, num_elements |-> meta.logical_size]>>
    ELSE <<[source_index |-> 0, dest_index |-> 0, num_elements |-> index - 1],
           [source_index |-> index + 1, dest_index |-> index + 1,
            num_elements |-> meta.logical_size]>>

\* resize_and_insert without "logical_size += 1"
resize_and_insert_no_count(meta, index, p_data, alloc_ok, beyond) ==
    LET new_cap == CALCULATE_NEW_CAPACITY(meta.capacity)
        p_new_backing_array == calloc(new_cap, meta.element_size)
        copied ==
            IF index = 0
            THEN copy_elements(meta.p_backing_array, 0, p_new_backing_array, 1,
                               meta.element_size, meta.logical_size, beyond)
            ELSE IF index = meta.capacity
            THEN copy_elements(meta.p_backing_array, 0, p_new_backing_array, 0,
                               meta.element_size, meta.logical_size, beyond)
            ELSE copy_elements(meta.p_backing_array, index + 1,
                     copy_elements(meta.p_backing_array, 0, p_new_backing_array, 0,
                                   meta.element_size, index - 1, beyond),
                     index + 1, meta.element_size, meta.logical_size, beyond)
        updated == [capacity |-> new_cap, element_size |-> meta.element_size,
                    logical_size |-> meta.logical_size,
                    p_backing_array |-> copied]
    IN  IF alloc_ok
        THEN set_element_at(updated, index, p_data)
        ELSE [status |-> FALSE, meta |-> meta]

\* resize_and_insert for a non-null handle: the status and the metadata after
resize_and_insert(meta, index, p_data, alloc_ok, beyond) ==
    LET new_cap == CALCULATE_NEW_CAPACITY(meta.capacity)
        p_new_backing_array == calloc(new_cap, meta.element_size)
        copied ==
            IF index = 0
            THEN copy_elements(meta.p_backing_array, 0, p_new_backing_array, 1,
                               meta.element_size, meta.logical_size, beyond)
            ELSE IF index = meta.capacity
            THEN copy_elements(meta.p_backing_array, 0, p_new_backing_array, 0,
                               meta.element_size, meta.logical_size, beyond)
            ELSE copy_elements(meta.p_backing_array, index + 1,
                     copy_elements(meta.p_backing_array, 0, p_new_backing_array, 0,
                                   meta.element_size, index - 1, beyond),
                     index + 1, meta.element_size, meta.logical_size, beyond)
        updated == [capacity |-> new_cap, element_size |-> meta.element_size,
                    logical_size |-> meta.logical_size + 1,
                    p_backing_array |-> copied]
    IN  IF alloc_ok
        THEN set_element_at(updated, index, p_data)
        ELSE [status |-> FALSE, meta |-> meta]

\* set_element(handle, index, p_data)
c_set_element(index, p_data) ==
    /\ variant = "opaque"
    /\ IF handle # "NULL"
       THEN LET r == set_element_at(p_meta_data, index, p_data)
            IN  /\ p_meta_data' = r.meta
                /\ ret' = Returned("set_element", r.status)
       ELSE /\ p_meta_data' = p_meta_data
            /\ ret' = Returned("set_element", FALSE)
    /\ UNCHANGED <<variant, typed_vars, handle>>

\* get_element(handle, index, p_data)
c_get_element(index) ==
    /\ variant = "opaque"
    /\ IF handle # "NULL" /\ index < p_meta_data.capacity
       THEN ret' = ReturnedData("get_element", TRUE,
                       Slot(p_meta_data.p_backing_array, p_meta_data.element_size, index))
       ELSE ret' = ReturnedData("get_element", FALSE, <<>>)
    /\ UNCHANGED <<variant, typed_vars, opaque_vars>>

\* insert_element without the "if (handle)" test
c_insert_element_no_null_check(index, p_data, alloc_ok) ==
    /\ variant = "opaque"
    /\ IF index <= p_meta_data.logical_size
          /\ p_meta_data.logical_size = p_meta_data.capacity
       THEN /\ CALCULATE_NEW_CAPACITY(p_meta_data.capacity) <= MaxOCap
            /\ \E beyond \in [1..OverRead(p_meta_data, index) -> Bytes] :
                 LET r == resize_and_insert(p_meta_data, index, p_data, alloc_ok, beyond)
                 IN  /\ p_meta_data' = r.meta
                     /\ ret' = Returned("insert_element", r.status)
       ELSE /\ p_meta_data' = p_meta_data
            /\ ret' = Returned("insert_element", FALSE)
    /\ UNCHANGED <<variant, typed_vars, handle>>

\* insert_element(handle, index, p_data); the branch for spare capacity is empty
c_insert_element(index, p_data, alloc_ok) ==
    /\ variant = "opaque"
    /\ IF handle # "NULL" /\ index <= p_meta_data.logical_size
                          /\ p_meta_data.logical_size = p_meta_data.capacity
       THEN /\ CALCULATE_NEW_CAPACITY(p_meta_data.capacity) <= MaxOCap
            /\ \E beyond \in [1..OverRead(p_meta_data, index) -> Bytes] :
                 LET r == resize_and_insert(p_meta_data, index, p_data, alloc_ok, beyond)
                 IN  /\ p_meta_data' = r.meta
                     /\ ret' = Returned("insert_element", r.status)
       ELSE /\ p_meta_data' = p_meta_data
            /\ ret' = Returned("insert_element", FALSE)
    /\ UNCHANGED <<variant, typed_vars, handle>>

\* delete_element(handle, index): the body is "return false"
c_delete_element(index) ==
    /\ variant = "opaque"
    /\ ret' = Returned("delete_element", FALSE)
    /\ UNCHANGED <<variant, typed_vars, opaque_vars>>

\* array_capacity(handle)
array_capacity ==
    /\ variant = "opaque"
    /\ ret' = Returned("array_capacity",
                       IF handle # "NULL" THEN p_meta_data.capacity ELSE 0)
    /\ UNCHANGED <<variant, typed_vars, opaque_vars>>

\* array_size(handle)
array_size ==
    /\ variant = "opaque"
    /\ ret' = Returned("array_size",
                       IF handle # "NULL" THEN p_meta_data.logical_size ELSE 0)
    /\ UNCHANGED <<variant, typed_vars, opaque_vars>>

\* free_array(handle): the backing array and the metadata are released; the
\* pointer the client still holds is then dangling ("FREED")
free_array ==
    /\ variant = "opaque"
    /\ IF handle # "NULL"
       THEN /\ handle' = "FREED"
            /\ p_meta_data' = NoMeta
       ELSE UNCHANGED opaque_vars
    /\ ret' = Returned("free_array", "void")
    /\ UNCHANGED <<variant, typed_vars>>

\* the data a caller passes through p_data: element_size bytes
Data(element_size) == [1..element_size -> Bytes]

\* a client creates an opaque array with init_array; it makes no call with
\* a handle it has passed to free_array (the guards of Next)
InitOpaque(meta_ok, array_ok) ==
    \E num_elements \in 0..MaxNum, element_size \in ElemSizes :
        LET r == init_array(num_elements, element_size, meta_ok, array_ok)
        IN  /\ variant = "opaque"
            /\ handle = r.handle
            /\ p_meta_data = r.meta
            /\ mp_array = <<>>
            /\ mp_null = TRUE
            /\ m_capacity = 0
            /\ m_size = 0
            /\ ret = Constructed("init_array",
                        [num_elements |-> num_elements, element_size |-> element_size],
                        r.handle)

---------------------------------------------------------------------------
\* a client constructs a dynarray<T>(size)
InitTyped(alloc_ok) ==
    \E size \in 0..MaxInit :
        LET obj == dynarray_ctor(size, alloc_ok)
        IN  /\ variant = "typed"
            /\ mp_array = obj.mp_array
            /\ mp_null = obj.mp_null
            /\ m_capacity = obj.m_capacity
            /\ m_size = obj.m_size
            /\ handle = "NULL"
            /\ p_meta_data = NoMeta
            /\ ret = Constructed("dynarray", [size |-> size], "object")

Init == InitTyped(TRUE) \/ InitOpaque(TRUE, TRUE)

Next ==
    \/ \E index \in Indices : get_element(index)
    \/ \E index \in Indices, element \in Values : set_element(index, element)
    \/ \E index \in Indices, element \in Values : insert_element(index, element, TRUE)
    \/ \E index \in Indices : delete_element(index)
    \/ handle # "FREED" /\ \E index \in OIndices, p_data \in Data(p_meta_data.element_size) :
           c_set_element(index, p_data)
    \/ handle # "FREED" /\ \E index \in OIndices : c_get_element(index)
    \/ handle # "FREED" /\ \E index \in OIndices, p_data \in Data(p_meta_data.element_size) :
           c_insert_element(index, p_data, TRUE)
    \/ handle # "FREED" /\ \E index \in OIndices : c_delete_element(index)
    \/ handle # "FREED" /\ array_capacity
    \/ handle # "FREED" /\ array_size
    \/ handle # "FREED" /\ free_array

Spec == Init /\ [][Next]_vars

\* the same program where an allocation may fail
InitAllocFail ==
    \/ Init
    \/ InitTyped(FALSE)
    \/ \E meta_ok \in BOOLEAN, array_ok \in BOOLEAN : InitOpaque(meta_ok, array_ok)

NextAllocFail ==
    \/ Next
    \/ \E index \in Indices, element \in Values : insert_element(index, element, FALSE)
    \/ handle # "FREED" /\ \E index \in OIndices, p_data \in Data(p_meta_data.element_size) :
           c_insert_element(index, p_data, FALSE)

SpecAllocFail == InitAllocFail /\ [][NextAllocFail]_vars

---------------------------------------------------------------------------
(* The claims about the containers.  A claim about a call is an action     *)
(* property over the steps of that call; the test of ret'.op in front of   *)
(* the action only names the call the step made, which the action implies. *)

\* the sequence s with v put in front of position i (0-based)
InsertAt(s, i, v) == SubSeq(s, 1, i) \o <<v>> \o SubSeq(s, i + 1, Len(s))

\* the sequence s without its position i (0-based)
RemoveAt(s, i) == SubSeq(s, 1, i) \o SubSeq(s, i + 2, Len(s))

\* C1: typed container: an insert_element(i, v) with 0 <= i <= logical_size
\* returns true, raises the logical size by exactly 1 and leaves the visible
\* sequence equal to s[0..i) ++ [v] ++ s[i..), in the reallocation branch and
\* in the in-place branch alike.
C1_InsertPlacesElement ==
    [][\A index \in Indices, element \in Values :
          (ret'.op = "insert_element" /\ index <= m_size
              /\ insert_element(index, element, TRUE)) =>
              /\ ret' = Returned("insert_element", TRUE)
              /\ m_size' = m_size + 1
              /\ Visible' = InsertAt(Visible, index, element)]_vars

\* C1 witness: a grown store (capacity 4 is reached only by reallocation from
\* 2) that later insertions filled in place, with 1s inserted among 0s
C1_Witness ==
    /\ variant = "typed"
    /\ ret = Returned("insert_element", TRUE)
    /\ m_capacity = 4 /\ m_size = 4
    /\ Visible = <<0, 1, 0, 1>>

\* C2: typed container: a valid insert_element on a full store sets capacity
\* to 1 if it was 0 and to twice its value otherwise; with spare capacity it
\* leaves capacity unchanged.  From construct(0), insertions at index 0 give
\* (capacity, size) = (1,1), (2,2), (4,3); a full store of capacity 5 grows to 10.
C2_CapacityGrowth ==
    [][\A index \in Indices, element \in Values :
          (ret'.op = "insert_element" /\ index <= m_size
              /\ insert_element(index, element, TRUE)) =>
              /\ m_size = m_capacity /\ m_capacity = 0 => m_capacity' = 1
              /\ m_size = m_capacity /\ m_capacity # 0 => m_capacity' = 2 * m_capacity
              /\ m_size < m_capacity => m_capacity' = m_capacity
              /\ index = 0 /\ m_capacity = 0 /\ m_size = 0
                    => m_capacity' = 1 /\ m_size' = 1
              /\ index = 0 /\ m_capacity = 1 /\ m_size = 1
                    => m_capacity' = 2 /\ m_size' = 2
              /\ index = 0 /\ m_capacity = 2 /\ m_size = 2
                    => m_capacity' = 4 /\ m_size' = 3
              /\ m_capacity = 5 /\ m_size = 5 => m_capacity' = 10]_vars

\* C2 witness: the store of capacity 5 has grown to 10 on an insertion at 0
C2_Witness ==
    /\ variant = "typed"
    /\ ret = Returned("insert_element", TRUE)
    /\ m_capacity = 10 /\ m_size = 6
    /\ Visible = <<1, 0, 0, 0, 0, 0>>

\* C3: typed container: a delete_element(i) with logical_size n > 0 and
\* 0 <= i < n returns true, leaves logical_size n - 1 and the visible
\* sequence with position i removed; deleting 0, 3, 4 from [1..7] leaves [2,3,4,6].
C3_DeleteRemovesElement ==
    [][/\ \A index \in Indices :
             (ret'.op = "delete_element" /\ m_size > 0 /\ index < m_size
                 /\ delete_element(index)) =>
                 /\ ret' = Returned("delete_element", TRUE)
                 /\ m_size' = m_size - 1
                 /\ Visible' = RemoveAt(Visible, index)
       /\ LET a0 == <<1, 2, 3, 4, 5, 6, 7>>
              a1 == delete_sift(a0, 0, 6)
              a2 == delete_sift(a1, 3, 5)
              a3 == delete_sift(a2, 4, 4)
          IN  SubSeq(a3, 1, 4) = <<2, 3, 4, 6>>]_vars

\* C3 witness: an element was deleted in front of others, which moved left
C3_Witness ==
    /\ variant = "typed"
    /\ ret = Returned("delete_element", TRUE)
    /\ m_capacity = 3 /\ m_size = 2
    /\ mp_array = <<0, 1, 0>>

\* C4 as claimed: typed container: insert_element(i, v) with i > logical_size
\* returns false and leaves backing store, logical_size and capacity unchanged.
C4_InsertOutOfRangeFails ==
    [][\A index \in Indices, element \in Values :
          (ret'.op = "insert_element" /\ index > m_size
              /\ insert_element(index, element, TRUE)) =>
              /\ ret' = Returned("insert_element", FALSE)
              /\ UNCHANGED typed_vars]_vars

\* C5: typed container: delete_element(i) with logical_size = 0 or
\* i >= logical_size returns false and leaves backing store, logical_size and
\* capacity unchanged.
C5_DeleteOutOfRangeFails ==
    [][\A index \in Indices :
          (ret'.op = "delete_element" /\ (m_size = 0 \/ index >= m_size)
              /\ delete_element(index)) =>
              /\ ret' = Returned("delete_element", FALSE)
              /\ UNCHANGED typed_vars]_vars

\* C5 witness: a container emptied by deletions on which a further delete failed
C5_Witness ==
    /\ variant = "typed"
    /\ ret = Returned("delete_element", FALSE)
    /\ m_size = 0 /\ m_capacity = 2

\* C6: typed container: set_element(i, v) returns true exactly when
\* i < logical_size; on success get_element(i) then returns v and no other
\* slot changes; on failure no slot changes; logical_size and capacity never change.
C6_SetElement ==
    [][\A index \in Indices, element \in Values :
          (ret'.op = "set_element" /\ set_element(index, element)) =>
              /\ ret' = Returned("set_element", index < m_size)
              /\ index < m_size => get_results(index)' = {element}
              /\ \A k \in 1..m_capacity :
                    k # index + 1 \/ index >= m_size => mp_array'[k] = mp_array[k]
              /\ Len(mp_array') = Len(mp_array)
              /\ UNCHANGED <<m_size, m_capacity>>]_vars

\* C6 witness: a set below the logical size of a store with spare capacity
C6_Witness ==
    /\ variant = "typed"
    /\ ret = Returned("set_element", TRUE)
    /\ m_capacity = 4 /\ m_size = 3
    /\ mp_array = <<0, 0, 1, 0>>

\* C7 as claimed: typed container: get_element(i) returns the stored element
\* when i < logical_size and the default (zero) value when i >= logical_size.
C7_GetElement ==
    [][\A index \in Indices :
          (ret'.op = "get_element" /\ get_element(index)) =>
              ret' = Returned("get_element",
                              IF index < m_size THEN mp_array[index + 1] ELSE Default)]_vars

\* C8: a successful construction with n elements yields capacity n and
\* logical size n with every slot zero: the typed constructor, and init_array,
\* whose metadata also keeps the element width.
C8_Construction ==
    /\ (ret.op = "dynarray" /\ ~mp_null) =>
          /\ m_capacity = ret.args.size
          /\ m_size = ret.args.size
          /\ Len(mp_array) = ret.args.size
          /\ \A k \in 1..Len(mp_array) : mp_array[k] = Default
    /\ (ret.op = "init_array" /\ handle # "NULL") =>
          /\ p_meta_data.capacity = ret.args.num_elements
          /\ p_meta_data.logical_size = ret.args.num_elements
          /\ p_meta_data.element_size = ret.args.element_size
          /\ Len(p_meta_data.p_backing_array)
                 = ret.args.num_elements * ret.args.element_size
          /\ \A k \in 1..Len(p_meta_data.p_backing_array) :
                 p_meta_data.p_backing_array[k] = 0

\* C8 witness: an opaque array of 2 elements of width 2 was just created
C8_Witness ==
    /\ variant = "opaque"
    /\ ret.op = "init_array"
    /\ handle # "NULL"
    /\ ret.args = [num_elements |-> 2, element_size |-> 2]

\* C9: in every reachable state logical_size <= capacity, for the typed
\* container and for the opaque container.
C9_SizeWithinCapacity ==
    /\ variant = "typed" => m_size <= m_capacity
    /\ (variant = "opaque" /\ handle # "NULL") =>
          p_meta_data.logical_size <= p_meta_data.capacity

\* C9 witness: an in-place insertion has filled a grown store to its capacity
C9_Witness ==
    /\ variant = "typed"
    /\ ret = Returned("insert_element", TRUE)
    /\ m_capacity = 8 /\ m_size = 8

\* C10: typed container: every slot at an index in [logical_size, capacity)
\* holds the default (zero) value.
C10_SpareSlotsDefault ==
    variant = "typed" =>
        \A k \in (m_size + 1)..m_capacity : mp_array[k] = Default

\* C10 witness: non-default elements were deleted from a store that keeps others
C10_Witness ==
    /\ variant = "typed"
    /\ ret = Returned("delete_element", TRUE)
    /\ m_capacity = 5 /\ m_size = 2
    /\ Visible = <<1, 1>>

\* C11: typed container: capacity never decreases; delete_element,
\* set_element and get_element never change it, and it changes only in an
\* insert_element performed when logical_size = capacity.
C11_CapacityMonotone ==
    [][variant = "typed" =>
          /\ m_capacity' >= m_capacity
          /\ ret'.op \in {"delete_element", "set_element", "get_element"}
                => m_capacity' = m_capacity
          /\ m_capacity' # m_capacity
                => ret'.op = "insert_element" /\ m_size = m_capacity]_vars

\* C11 witness: elements were deleted from a store that had grown to
\* capacity 8, and the capacity is still 8
C11_Witness ==
    /\ variant = "typed"
    /\ ret = Returned("delete_element", TRUE)
    /\ m_capacity = 8 /\ m_size = 2

\* C12 as claimed: typed container: when the allocation of the new backing
\* store fails during an insert_element on a full container, insert_element
\* returns false to its caller (no error propagates) and backing store,
\* logical_size and capacity are left unmodified.
C12_InsertAllocFailureReturnsFalse ==
    [][\A index \in Indices, element \in Values :
          (ret'.op = "insert_element" /\ index <= m_size /\ m_size = m_capacity
              /\ insert_element(index, element, FALSE)) =>
              /\ ret'.status = "returned"
              /\ ret'.val = FALSE
              /\ UNCHANGED typed_vars]_vars

\* the slots [0, logical_size) of the opaque container, each as its bytes
OVisible(meta) ==
    [k \in 1..meta.logical_size |-> Slot(meta.p_backing_array, meta.element_size, k - 1)]

\* a non-null, live handle whose container is full
OFull == variant = "opaque" /\ handle = "META"
            /\ p_meta_data.logical_size = p_meta_data.capacity

\* C13 as claimed: opaque container: for every full container with visible
\* sequence s and every index i with 0 <= i <= logical_size (head, middle
\* and append), insert_element(handle, i, p) returns true and the new
\* buffer's visible sequence is s[0..i) ++ [*p] ++ s[i..).
C13_OpaqueInsertFull ==
    [][\A index \in OIndices, p_data \in Data(p_meta_data.element_size) :
          (ret'.op = "insert_element" /\ OFull /\ index <= p_meta_data.logical_size
              /\ c_insert_element(index, p_data, TRUE)) =>
              /\ ret'.val = TRUE
              /\ OVisible(p_meta_data)' = InsertAt(OVisible(p_meta_data), index, p_data)]_vars

\* a non-null, live handle
OLive == variant = "opaque" /\ handle = "META"

\* C14 as claimed: opaque container: insert_element(handle, i, p) with
\* 0 <= i <= logical_size on a container with spare capacity returns true,
\* shifts the elements at [i, logical_size) right by one in place, stores *p
\* at i, increments logical_size by 1 and leaves capacity unchanged.
C14_OpaqueInsertInPlace ==
    [][\A index \in OIndices, p_data \in Data(p_meta_data.element_size) :
          (ret'.op = "insert_element" /\ OLive
              /\ index <= p_meta_data.logical_size
              /\ p_meta_data.logical_size < p_meta_data.capacity
              /\ c_insert_element(index, p_data, TRUE)) =>
              /\ ret'.val = TRUE
              /\ p_meta_data'.logical_size = p_meta_data.logical_size + 1
              /\ p_meta_data'.capacity = p_meta_data.capacity
              /\ OVisible(p_meta_data)' = InsertAt(OVisible(p_meta_data), index, p_data)]_vars

\* C15 as claimed: opaque container: delete_element(handle, i) with
\* logical_size > 0 and 0 <= i < logical_size returns true, removes slot i
\* from the visible sequence (clear, left-shift of the tail), decrements
\* logical_size by 1 and leaves capacity unchanged.
C15_OpaqueDelete ==
    [][\A index \in OIndices :
          (ret'.op = "delete_element" /\ OLive
              /\ p_meta_data.logical_size > 0 /\ index < p_meta_data.logical_size
              /\ c_delete_element(index)) =>
              /\ ret'.val = TRUE
              /\ p_meta_data'.logical_size = p_meta_data.logical_size - 1
              /\ p_meta_data'.capacity = p_meta_data.capacity
              /\ OVisible(p_meta_data)' = RemoveAt(OVisible(p_meta_data), index)]_vars

\* C16: opaque container: insert_element at index 0 on a full container of
\* capacity c, the allocation succeeding, returns true, sets capacity to 1
\* when c = 0 and to 2 * c otherwise, and adds exactly 1 to logical_size; a
\* container made by init_array(0, size) starts at (capacity, size) = (0, 0),
\* so three such insertions go through (1,1), (2,2), (4,3).
C16_HeadInsertDoubles ==
    [][/\ (variant = "opaque" /\ ret.op = "init_array" /\ ret.args.num_elements = 0
              /\ handle = "META") =>
              p_meta_data.capacity = 0 /\ p_meta_data.logical_size = 0
       /\ \A p_data \in Data(p_meta_data.element_size) :
            (ret'.op = "insert_element" /\ OFull /\ c_insert_element(0, p_data, TRUE)) =>
                /\ ret'.val = TRUE
                /\ p_meta_data'.capacity =
                       IF p_meta_data.capacity = 0 THEN 1 ELSE 2 * p_meta_data.capacity
                /\ p_meta_data'.logical_size = p_meta_data.logical_size + 1
                /\ <<p_meta_data.capacity, p_meta_data.logical_size>> = <<0, 0>> =>
                       <<p_meta_data'.capacity, p_meta_data'.logical_size>> = <<1, 1>>
                /\ <<p_meta_data.capacity, p_meta_data.logical_size>> = <<1, 1>> =>
                       <<p_meta_data'.capacity, p_meta_data'.logical_size>> = <<2, 2>>
                /\ <<p_meta_data.capacity, p_meta_data.logical_size>> = <<2, 2>> =>
                       <<p_meta_data'.capacity, p_meta_data'.logical_size>> = <<4, 3>>]_vars

\* after the third head insertion: capacity 4, three elements, the inserted
\* element in slot 0
C16_Witness ==
    /\ OLive /\ ret = Returned("insert_element", TRUE)
    /\ p_meta_data.capacity = 4 /\ p_meta_data.logical_size = 3
    /\ p_meta_data.element_size = 1
    /\ p_meta_data.p_backing_array = <<1, 0, 0, 0>>

\* the slots of the whole backing array, 0 .. capacity - 1
OSlots(meta) == [k \in 1..meta.capacity |-> Slot(meta.p_backing_array, meta.element_size, k - 1)]

\* the metadata fields other than the buffer
OShape(meta) == <<meta.capacity, meta.logical_size, meta.element_size>>

\* what get_element(handle, index, dst) gives in the current state
OGet(index) ==
    IF index < p_meta_data.capacity
    THEN ReturnedData("get_element", TRUE,
             Slot(p_meta_data.p_backing_array, p_meta_data.element_size, index))
    ELSE ReturnedData("get_element", FALSE, <<>>)

\* C17: opaque container, non-null handle: set_element and get_element return
\* true exactly when index < capacity; after a successful set, get at the same
\* index yields the bytes set, every other slot is as before, and neither
\* call changes capacity, logical_size or element_size (get changes nothing).
C17_OpaqueSetGet ==
    [][OLive =>
         /\ \A index \in OIndices, p_data \in Data(p_meta_data.element_size) :
              (ret'.op = "set_element" /\ c_set_element(index, p_data)) =>
                  /\ ret'.val = (index < p_meta_data.capacity)
                  /\ OShape(p_meta_data)' = OShape(p_meta_data)
                  /\ Len(p_meta_data'.p_backing_array) = Len(p_meta_data.p_backing_array)
                  /\ ret'.val => /\ OGet(index)'.val = TRUE
                                 /\ OGet(index)'.copied = p_data
                  /\ \A k \in 1..p_meta_data.capacity :
                        (k - 1 # index \/ ~ret'.val) => OSlots(p_meta_data)'[k] = OSlots(p_meta_data)[k]
         /\ \A index \in OIndices :
              (ret'.op = "get_element" /\ c_get_element(index)) =>
                  /\ ret'.val = (index < p_meta_data.capacity)
                  /\ ret' = OGet(index)
                  /\ UNCHANGED opaque_vars]_vars

\* a set at slot 1 of a two-slot array of two-byte elements has succeeded
C17_Witness ==
    /\ OLive /\ ret = Returned("set_element", TRUE)
    /\ p_meta_data.capacity = 2 /\ p_meta_data.element_size = 2
    /\ p_meta_data.p_backing_array = <<0, 0, 1, 1>>

\* C18 as claimed: opaque container: set_element and get_element with an
\* index at or above logical_size return false and copy no byte into or out
\* of the backing array.
C18_RangeIsLogicalSize ==
    [][OLive =>
         /\ \A index \in OIndices, p_data \in Data(p_meta_data.element_size) :
              (ret'.op = "set_element" /\ index >= p_meta_data.logical_size
                  /\ c_set_element(index, p_data)) =>
                  ret'.val = FALSE /\ UNCHANGED opaque_vars
         /\ \A index \in OIndices :
              (ret'.op = "get_element" /\ index >= p_meta_data.logical_size
                  /\ c_get_element(index)) =>
                  ret'.val = FALSE /\ ret'.copied = <<>> /\ UNCHANGED opaque_vars]_vars

\* C18, amended: opaque container: set_element and get_element with an index
\* at or above capacity return false and copy no byte into or out of the
\* backing array.
C18_RangeIsCapacity ==
    [][OLive =>
         /\ \A index \in OIndices, p_data \in Data(p_meta_data.element_size) :
              (ret'.op = "set_element" /\ index >= p_meta_data.capacity
                  /\ c_set_element(index, p_data)) =>
                  ret'.val = FALSE /\ UNCHANGED opaque_vars
         /\ \A index \in OIndices :
              (ret'.op = "get_element" /\ index >= p_meta_data.capacity
                  /\ c_get_element(index)) =>
                  ret'.val = FALSE /\ ret'.copied = <<>> /\ UNCHANGED opaque_vars]_vars

\* a set has been refused on an array whose capacity (4) exceeds its
\* logical size (3)
C18_Witness ==
    /\ OLive /\ ret = Returned("set_element", FALSE)
    /\ p_meta_data.capacity = 4 /\ p_meta_data.logical_size = 3

\* the handle init_array gave is null (an allocation failed)
ONull == variant = "opaque" /\ handle = "NULL"

\* C19: opaque container: every entry point called with a null handle is a
\* no-op: set_element, get_element, insert_element and delete_element return
\* false (get copies nothing out), array_capacity and array_size return 0,
\* free_array does nothing; no metadata is read or written.
C19_NullHandleNoOp ==
    [][ONull =>
         /\ UNCHANGED opaque_vars
         /\ ret'.status = "returned"
         /\ ret'.op \in {"set_element", "get_element", "insert_element", "delete_element",
                         "array_capacity", "array_size", "free_array"}
         /\ ret'.op \in {"set_element", "get_element", "insert_element", "delete_element"} =>
                ret'.val = FALSE
         /\ ret'.op = "get_element" => ret'.copied = <<>>
         /\ ret'.op \in {"array_capacity", "array_size"} => ret'.val = 0]_vars

\* an insert_element on a null handle has returned false
C19_Witness == ONull /\ ret = Returned("insert_element", FALSE)

\* C20 as claimed: opaque container, growth path: for a full container and
\* every insertion index 0 <= i <= logical_size, each copy_elements call of
\* resize_and_insert reads only slots of the old buffer (source_index +
\* num_elements <= old capacity) and writes only slots of the new buffer
\* (dest_index + num_elements <= new capacity).
C20_CopiesInBounds ==
    OFull =>
        \A index \in 0..p_meta_data.logical_size :
            LET calls == copy_calls(p_meta_data, index)
            IN  \A n \in 1..Len(calls) :
                    /\ calls[n].source_index + calls[n].num_elements <= p_meta_data.capacity
                    /\ calls[n].dest_index + calls[n].num_elements
                           <= CALCULATE_NEW_CAPACITY(p_meta_data.capacity)

\* C21: typed container: in every reachable state and for every argument,
\* each slot of a backing store that get_element, set_element, insert_element
\* (reallocation copy loop and in-place loop) and delete_element (the swap
\* with slot i + 1 included) touches is in [0, capacity) of that store; the
\* store the object holds has m_capacity slots (none when mp_array is null)
\* and the reallocated one has new_capacity(m_capacity).
C21_AccessesInBounds ==
    variant = "typed" =>
        /\ Len(mp_array) = m_capacity
        /\ mp_null => m_capacity = 0
        /\ \A index \in Indices :
             /\ get_element_touched(index) \subseteq 0..(m_capacity - 1)
             /\ set_element_touched(index) \subseteq 0..(m_capacity - 1)
             /\ insert_element_touched(index).mp_array \subseteq 0..(m_capacity - 1)
             /\ insert_element_touched(index).new_array
                    \subseteq 0..(new_capacity(m_capacity) - 1)
             /\ delete_element_touched(index) \subseteq 0..(m_capacity - 1)

\* a delete at slot 0 of a full five-slot store has run: its last swap
\* touched slot 4, the last of the store
C21_Witness ==
    /\ variant = "typed" /\ ret = Returned("delete_element", TRUE)
    /\ m_capacity = 5 /\ m_size = 4

\* what delete_element(index) gives on a store arr of logical size size: its
\* return value, the store and the logical size after the call
AfterDelete(arr, size, index) ==
    IF delete_in_range(index, size)
    THEN [val |-> TRUE, mp_array |-> delete_sift(arr, index, size - 1), m_size |-> size - 1]
    ELSE [val |-> FALSE, mp_array |-> arr, m_size |-> size]

\* C22: typed container round trip: from a state with visible sequence s, for
\* every index i with 0 <= i <= m_size, insert_element(i, v) returns true and
\* the delete_element(i) that follows it returns true and restores s and the
\* original m_size; the capacity after both is the capacity after the insert,
\* which is at least the original one.  (The second conjunct ties AfterDelete
\* to the delete_element steps of the model.)
C22_InsertDeleteRoundTrip ==
    [][variant = "typed" =>
         /\ \A index \in Indices, element \in Values :
              (ret'.op = "insert_element" /\ index <= m_size
                  /\ insert_element(index, element, TRUE)) =>
                  LET d == AfterDelete(mp_array', m_size', index)
                  IN  /\ ret'.val = TRUE
                      /\ d.val = TRUE
                      /\ d.m_size = m_size
                      /\ SubSeq(d.mp_array, 1, d.m_size) = Visible
                      /\ Len(d.mp_array) = m_capacity'
                      /\ m_capacity' >= m_capacity
         /\ \A index \in Indices :
              (ret'.op = "delete_element" /\ delete_element(index)) =>
                  /\ <<ret'.val, mp_array', m_size'>> =
                         <<AfterDelete(mp_array, m_size, index).val,
                           AfterDelete(mp_array, m_size, index).mp_array,
                           AfterDelete(mp_array, m_size, index).m_size>>
                  /\ m_capacity' = m_capacity]_vars

\* a full five-slot array of 1s after an insert (growing it to ten slots)
\* and the delete that undoes it
C22_Witness ==
    /\ variant = "typed" /\ ret = Returned("delete_element", TRUE)
    /\ m_capacity = 10 /\ m_size = 5
    /\ Visible = <<1, 1, 1, 1, 1>>

====
